---- MODULE Spec2Model ----
(***************************************************************************)
(* Model of quicksurvey: the fiber assignment batch pass                   *)
(* (fiberassign/assign.py), the neighbour table of the focal plane layout  *)
(* (util/__init__.py) and the recording of results                         *)
(* (recordresults/update.py).                                              *)
(*                                                                         *)
(* Arrays keep the 0-based indices of the code: an array of n entries is a *)
(* function on 0..n-1.  Candidate lists are sequences of target ids.       *)
(* Positions are integer millimetres, so every squared distance is exact   *)
(* and np.sqrt, being monotone and exact on the squares that occur, orders *)
(* and compares distances as their squares do: distance < patrol_radius    *)
(* iff distance^2 < patrol_radius^2.                                       *)
(***************************************************************************)
EXTENDS Integers, Sequences, FiniteSets, TLC

VARIABLES
    x_focal, y_focal,      \* Fibers.x_focal, Fibers.y_focal
    tile_x, tile_y,        \* TargetsTile.x, TargetsTile.y
    tile_id,               \* TargetsTile.id
    tile_fiber,            \* TargetsTile.fiber: the fiber of each target, -1 = none
    available_targets,     \* Fibers.available_targets
    n_targets,             \* Fibers.n_targets
    fiber_target,          \* Fibers.target: the target id of each fiber, -1 = none
    neighbors,             \* FocalPlaneFibers.neighbors
    all_id,                \* TargetsSurvey.id
    n_observed,            \* TargetsSurvey.n_observed
    tile_names,            \* TargetsSurvey.tile_names
    results,               \* the Results_Tile files: TARGETID and NOBS columns
    tie,                   \* order argsort gives to equal keys (not a stable sort)
    pc,                    \* the function being executed, or how it ended
    i, j,                  \* loop indices
    run,                   \* number of the batch pass on these inputs
    prev                   \* assignment the previous pass ended with; in the
                           \* recording, the counters and tile as first passed

vars == <<x_focal, y_focal, tile_x, tile_y, tile_id, tile_fiber,
          available_targets, n_targets, fiber_target, neighbors,
          all_id, n_observed, tile_names, results, tie, pc, i, j, run, prev>>

passInputs == <<x_focal, y_focal, tile_x, tile_y, tile_id, tie>>
recordVars == <<all_id, n_observed, tile_names, results>>

-----------------------------------------------------------------------------
(* Bounds *)

MaxFibers == 2
MaxTargets == 3
MaxRuns == 2

FiberPoints == {<<0, 0>>, <<4, 0>>, <<8, 0>>}
TargetPoints == {<<0, 0>>, <<2, 0>>, <<6, 0>>, <<10, 0>>, <<3, 4>>}
IdBase == 100
TieOrders == {"asc", "desc"}

-----------------------------------------------------------------------------
(* Program constants and helpers *)

R1 == 3
R2 == 3
patrol_radius == R1 + R2

Unassigned == 0 - 1

Indices(a) == DOMAIN a
Size(a) == Cardinality(DOMAIN a)

n_fiber == Size(x_focal)
n_tile == Size(tile_x)

\* np.sqrt((TargetsTile.x - x_pos)**2 + (TargetsTile.y - y_pos)**2), squared
distance2(f, t) ==
    (tile_x[t] - x_focal[f]) * (tile_x[t] - x_focal[f])
  + (tile_y[t] - y_focal[f]) * (tile_y[t] - y_focal[f])

\* reachable, with the patrol radius itself counted as in reach
reachable_inclusive(f) ==
    {t \in Indices(tile_x) : distance2(f, t) <= patrol_radius * patrol_radius}

\* np.where(distance < patrol_radius)[0]
reachable(f) ==
    {t \in Indices(tile_x) : distance2(f, t) < patrol_radius * patrol_radius}

\* TieBefore, with an order of equal keys that changes from pass to pass
TieBefore_per_run(a, b) ==
    IF (tie = "asc") = (run = 1) THEN a < b ELSE a > b

\* argsort is not a stable sort: equal keys come out in an order of the
\* build's choosing, the same for every call
TieBefore(a, b) == IF tie = "asc" THEN a < b ELSE a > b

Before(a, b, key) ==
    key[a] < key[b] \/ (key[a] = key[b] /\ TieBefore(a, b))

\* the indices of S in ascending order of key
RECURSIVE argsort(_, _)
argsort(S, key) ==
    IF S = {} THEN <<>>
    ELSE LET m == CHOOSE a \in S : \A b \in S \ {a} : Before(a, b, key)
         IN  <<m>> \o argsort(S \ {m}, key)

\* sorted_ids, with the reachable ids left in pool order
sorted_ids_pool_order(f) ==
    LET key == [t \in reachable(f) |-> t]
        order == argsort(reachable(f), key)
    IN  [k \in 1..Len(order) |-> tile_id[order[k]]]

\* TargetsTile.id[reachable[sort_id]]
sorted_ids(f) ==
    LET order == argsort(reachable(f), [t \in reachable(f) |-> distance2(f, t)])
    IN  [k \in 1..Len(order) |-> tile_id[order[k]]]

\* The four setters below are called by assign.py but defined in none of the
\* source files at hand; they are the plain stores the design describes.

\* Fibers.set_available(i, ids) and Fibers.reset_available(i)
set_available(f, ids) ==
    /\ available_targets' = [available_targets EXCEPT ![f] = ids]
    /\ n_targets' = [n_targets EXCEPT ![f] = Len(ids)]

reset_available(f) ==
    /\ available_targets' = [available_targets EXCEPT ![f] = <<>>]
    /\ n_targets' = [n_targets EXCEPT ![f] = 0]

\* Fibers.set_target(i, target)
set_target(f, target) ==
    fiber_target' = [fiber_target EXCEPT ![f] = target]

\* TargetsTile.set_fiber(target, i)
set_fiber(target, f) ==
    tile_fiber' = [t \in Indices(tile_fiber) |->
                     IF tile_id[t] = target THEN f ELSE tile_fiber[t]]

\* has_targets, with the empty candidate list let through
has_targets_or_none(f) == n_targets[f] >= 0

\* if(Fibers.n_targets[i]>0)
has_targets(f) == n_targets[f] > 0

-----------------------------------------------------------------------------
(* The batch pass: find_available_targets, then select_target *)

NoRecord ==
    /\ neighbors = <<>>
    /\ all_id = <<>>
    /\ n_observed = <<>>
    /\ tile_names = <<>>
    /\ results = <<>>
    /\ j = 0

Fresh(nf, nt) ==
    /\ tile_fiber = [t \in 0..(nt - 1) |-> Unassigned]
    /\ available_targets = [f \in 0..(nf - 1) |-> <<>>]
    /\ n_targets = [f \in 0..(nf - 1) |-> 0]
    /\ fiber_target = [f \in 0..(nf - 1) |-> Unassigned]

Init ==
    /\ \E nf \in 0..MaxFibers : \E fp \in [0..(nf - 1) -> FiberPoints] :
         /\ \A f, g \in 0..(nf - 1) : f # g => fp[f] # fp[g]
         /\ x_focal = [f \in 0..(nf - 1) |-> fp[f][1]]
         /\ y_focal = [f \in 0..(nf - 1) |-> fp[f][2]]
         /\ \E nt \in 0..MaxTargets : \E tp \in [0..(nt - 1) -> TargetPoints] :
              /\ tile_x = [t \in 0..(nt - 1) |-> tp[t][1]]
              /\ tile_y = [t \in 0..(nt - 1) |-> tp[t][2]]
              /\ tile_id \in {[t \in 0..(nt - 1) |-> IdBase + t],
                              [t \in 0..(nt - 1) |-> IdBase + (nt - 1 - t)]}
              /\ Fresh(nf, nt)
    /\ tie \in TieOrders
    /\ pc = "find_available_targets"
    /\ i = 0
    /\ run = 1
    /\ prev = <<>>
    /\ NoRecord

\* one iteration of the loop of find_available_targets
FindAvailableTargets ==
    /\ pc = "find_available_targets"
    /\ i < n_fiber
    /\ IF Cardinality(reachable(i)) > 0
         THEN set_available(i, sorted_ids(i))
         ELSE reset_available(i)
    /\ i' = i + 1
    /\ UNCHANGED <<passInputs, tile_fiber, fiber_target, neighbors,
                   recordVars, pc, j, run, prev>>

\* find_available_targets returns; select_target is called
FindAvailableReturn ==
    /\ pc = "find_available_targets"
    /\ i = n_fiber
    /\ pc' = "select_target"
    /\ i' = 0
    /\ UNCHANGED <<passInputs, tile_fiber, available_targets, n_targets,
                   fiber_target, neighbors, recordVars, j, run, prev>>

\* one iteration of the loop of select_target
SelectTarget ==
    /\ pc = "select_target"
    /\ i < n_fiber
    /\ IF has_targets(i)
         THEN IF available_targets[i] = <<>>
                THEN \* target_array[0] of an empty array: IndexError
                     /\ pc' = "error"
                     /\ UNCHANGED <<fiber_target, tile_fiber, i>>
                ELSE LET target == available_targets[i][1]
                     IN  /\ set_target(i, target)
                         /\ set_fiber(target, i)
                         /\ i' = i + 1
                         /\ pc' = pc
         ELSE /\ i' = i + 1
              /\ UNCHANGED <<fiber_target, tile_fiber, pc>>
    /\ UNCHANGED <<passInputs, available_targets, n_targets, neighbors,
                   recordVars, j, run, prev>>

\* select_target returns
SelectTargetReturn ==
    /\ pc = "select_target"
    /\ i = n_fiber
    /\ pc' = "done"
    /\ UNCHANGED <<passInputs, tile_fiber, available_targets, n_targets,
                   fiber_target, neighbors, recordVars, i, j, run, prev>>

\* the pass is run again on the same layout and pool, freshly loaded
Rerun ==
    /\ pc = "done"
    /\ run < MaxRuns
    /\ prev' = <<fiber_target, tile_fiber>>
    /\ run' = run + 1
    /\ tile_fiber' = [t \in Indices(tile_x) |-> Unassigned]
    /\ available_targets' = [f \in Indices(x_focal) |-> <<>>]
    /\ n_targets' = [f \in Indices(x_focal) |-> 0]
    /\ fiber_target' = [f \in Indices(x_focal) |-> Unassigned]
    /\ pc' = "find_available_targets"
    /\ i' = 0
    /\ UNCHANGED <<passInputs, neighbors, recordVars, j>>

Next ==
    \/ FindAvailableTargets
    \/ FindAvailableReturn
    \/ SelectTarget
    \/ SelectTargetReturn
    \/ Rerun

Spec == Init /\ [][Next]_vars

-----------------------------------------------------------------------------
(* Properties of the batch pass *)

Fibers == Indices(x_focal)
Targets == Indices(tile_x)

\* the index of the pool target with this id
target_index(id) == CHOOSE t \in Targets : tile_id[t] = id

\* strictly inside the patrol radius, stated on the positions
WithinPatrol(f, t) ==
    (tile_x[t] - x_focal[f]) * (tile_x[t] - x_focal[f])
  + (tile_y[t] - y_focal[f]) * (tile_y[t] - y_focal[f]) < (R1 + R2) * (R1 + R2)

ExactlyAtPatrol(f, t) ==
    (tile_x[t] - x_focal[f]) * (tile_x[t] - x_focal[f])
  + (tile_y[t] - y_focal[f]) * (tile_y[t] - y_focal[f]) = (R1 + R2) * (R1 + R2)

\* the fibers whose candidate list has been computed in this pass
Indexed == IF pc = "find_available_targets" THEN {f \in Fibers : f < i} ELSE Fibers

\* C1: after a batch pass no two fibers hold the same assigned target id and
\* no two targets hold the same assigned fiber id.
C1_Exclusivity ==
    pc = "done" =>
      /\ \A f, g \in Fibers :
           (f # g /\ fiber_target[f] # Unassigned)
             => fiber_target[f] # fiber_target[g]
      /\ \A t, u \in Targets :
           (t # u /\ tile_fiber[t] # Unassigned)
             => tile_fiber[t] # tile_fiber[u]

\* C2: pairing symmetry holds after every step of select_target and at the
\* end of the pass: a target's fiber holds that target's id, and a fiber's
\* target holds that fiber's id.
C2_PairingSymmetry ==
    /\ \A t \in Targets :
         tile_fiber[t] # Unassigned
           => fiber_target[tile_fiber[t]] = tile_id[t]
    /\ \A f \in Fibers :
         fiber_target[f] # Unassigned
           => tile_fiber[target_index(fiber_target[f])] = f

\* the entries of fiber f's candidate list that no fiber has claimed yet
free_candidates(f) ==
    SelectSeq(available_targets[f],
              LAMBDA id : tile_fiber[target_index(id)] = Unassigned)

\* C3: a step of select_target gives a fiber with a non-empty candidate list
\* the first entry of the list that is still unclaimed when the fiber is
\* processed, and leaves the fiber unassigned exactly when every entry is
\* already claimed.
C3_FirstUnclaimed ==
    [][(pc = "select_target" /\ i < n_fiber /\ i' = i + 1
          /\ Len(available_targets[i]) > 0)
        => fiber_target'[i] = IF free_candidates(i) = <<>>
                                THEN Unassigned
                                ELSE free_candidates(i)[1]]_vars

\* C4: within one pass a target's fiber, once set, is never changed, neither
\* back to unassigned nor to another fiber.
C4_ClaimedOnce ==
    [][run' = run
        => \A t \in Targets :
             tile_fiber[t] # Unassigned => tile_fiber'[t] = tile_fiber[t]]_vars

\* C5: every assigned fiber-target pair is strictly closer than the patrol
\* radius R1 + R2; a target exactly at the patrol radius is never assigned.
C5_ReachabilityBound ==
    /\ \A f \in Fibers :
         fiber_target[f] # Unassigned
           => WithinPatrol(f, target_index(fiber_target[f]))
    /\ \A t \in Targets :
         tile_fiber[t] # Unassigned => WithinPatrol(tile_fiber[t], t)

C5_Witness ==
    /\ pc = "done"
    /\ \E f \in Fibers : \E t \in Targets :
         /\ ExactlyAtPatrol(f, t)
         /\ fiber_target[f] # Unassigned
         /\ tile_fiber[t] = Unassigned

\* C6: the candidate list of every fiber holds exactly the ids of the pool
\* targets strictly inside the patrol radius, each once, in ascending
\* distance; n_targets is its length, 0 for a fiber that reaches no target.
C6_CandidateLists ==
    \A f \in Indexed :
      LET list == available_targets[f]
          d(k) == distance2(f, target_index(list[k]))
      IN  /\ {list[k] : k \in 1..Len(list)}
               = {tile_id[t] : t \in {u \in Targets : WithinPatrol(f, u)}}
          /\ Len(list) = Cardinality({u \in Targets : WithinPatrol(f, u)})
          /\ \A k, l \in 1..Len(list) : k < l => d(k) <= d(l)
          /\ n_targets[f] = Len(list)

C6_Witness ==
    /\ pc = "select_target"
    /\ \E f \in Fibers :
         /\ Len(available_targets[f]) >= 2
         /\ \E h \in Fibers : \E k \in 1..Len(available_targets[h]) :
              /\ h # f
              /\ available_targets[h][k] = available_targets[f][2]
         /\ distance2(f, target_index(available_targets[f][1]))
              < distance2(f, target_index(available_targets[f][2]))
         /\ target_index(available_targets[f][1])
              > target_index(available_targets[f][2])

\* C7: the pass never ends in an error; with no fibers or no targets the
\* assignment is empty; a fiber with an empty candidate list stays
\* unassigned and a target no fiber reaches keeps fiber -1.
C7_DegenerateInputs ==
    /\ pc # "error"
    /\ (pc = "done" /\ (n_fiber = 0 \/ n_tile = 0))
         => /\ \A t \in Targets : tile_fiber[t] = Unassigned
            /\ \A f \in Fibers : fiber_target[f] = Unassigned
    /\ pc \in {"select_target", "done"}
         => \A f \in Fibers :
              available_targets[f] = <<>> => fiber_target[f] = Unassigned
    /\ \A t \in Targets :
         (\A f \in Fibers : ~WithinPatrol(f, t)) => tile_fiber[t] = Unassigned

C7_Witness ==
    /\ pc = "done"
    /\ \E f \in Fibers :
         /\ available_targets[f] = <<>>
         /\ fiber_target[f] = Unassigned
    /\ \E t \in Targets :
         /\ \A f \in Fibers : ~WithinPatrol(f, t)
         /\ tile_fiber[t] = Unassigned

-----------------------------------------------------------------------------
(* FocalPlaneFibers.__init__: the table of the nearest fibers *)

MaxLayoutFibers == 8
LayoutPitch == 4

n_neighbors == 6

\* np.sqrt((self.x_focal - x)**2 + (self.y_focal - y)**2), squared
radius2(f, g) ==
    (x_focal[g] - x_focal[f]) * (x_focal[g] - x_focal[f])
  + (y_focal[g] - y_focal[f]) * (y_focal[g] - y_focal[f])

\* ids[1:7]
nearest_slice(ids) ==
    IF Len(ids) <= 1 THEN <<>>
    ELSE SubSeq(ids, 2, IF Len(ids) < n_neighbors + 1
                          THEN Len(ids) ELSE n_neighbors + 1)

\* fiber f stands on its own slot of the grid or on the next fiber's
InitLayout ==
    /\ \E less \in 0..MaxLayoutFibers :
         \E fp \in [0..(MaxLayoutFibers - less - 1) -> BOOLEAN] :
          LET nf == MaxLayoutFibers - less IN
           /\ x_focal = [f \in 0..(nf - 1) |->
                           LayoutPitch * (IF fp[f] THEN f + 1 ELSE f)]
           /\ y_focal = [f \in 0..(nf - 1) |-> 0]
           /\ neighbors = [f \in 0..(nf - 1) |->
                             [k \in 1..n_neighbors |-> 0]]
    /\ tie \in TieOrders
    /\ pc = "FocalPlaneFibers"
    /\ i = 0
    /\ j = 0
    /\ run = 1
    /\ prev = <<>>
    /\ tile_x = <<>>
    /\ tile_y = <<>>
    /\ tile_id = <<>>
    /\ tile_fiber = <<>>
    /\ available_targets = <<>>
    /\ n_targets = <<>>
    /\ fiber_target = <<>>
    /\ all_id = <<>>
    /\ n_observed = <<>>
    /\ tile_names = <<>>
    /\ results = <<>>

layoutFrame == <<x_focal, y_focal, tile_x, tile_y, tile_id, tile_fiber,
                 available_targets, n_targets, fiber_target, all_id,
                 n_observed, tile_names, results, tie, j, run, prev>>

\* one iteration of the loop of __init__: self.neighbors[i,:] = ids[1:7]
BuildNeighbors ==
    /\ pc = "FocalPlaneFibers"
    /\ i < n_fiber
    /\ LET ids == argsort(Indices(x_focal),
                          [g \in Indices(x_focal) |-> radius2(i, g)])
           row == nearest_slice(ids)
       IN  IF Len(row) = n_neighbors
             THEN /\ neighbors' = [neighbors EXCEPT ![i] = row]
                  /\ i' = i + 1
                  /\ pc' = pc
             ELSE IF Len(row) = 1
                    THEN \* a single value is broadcast over the row
                         /\ neighbors' = [neighbors EXCEPT ![i] =
                                            [k \in 1..n_neighbors |-> row[1]]]
                         /\ i' = i + 1
                         /\ pc' = pc
                    ELSE \* ValueError: could not broadcast input array
                         /\ pc' = "raised"
                         /\ UNCHANGED <<neighbors, i>>
    /\ UNCHANGED layoutFrame

\* __init__ returns
BuildReturn ==
    /\ pc = "FocalPlaneFibers"
    /\ i = n_fiber
    /\ pc' = "built"
    /\ UNCHANGED <<neighbors, i>>
    /\ UNCHANGED layoutFrame

NextLayout == BuildNeighbors \/ BuildReturn

SpecLayout == InitLayout /\ [][NextLayout]_vars

\* C9: the neighbor list of every fiber of a built layout has 6 entries,
\* does not contain the fiber itself and lists the 6 nearest other fibers in
\* ascending distance, for every layout, also with coincident fibers or
\* fewer than 7 fibers.
C9_NeighborCompleteness ==
    /\ pc # "raised"
    /\ \A f \in {g \in Fibers : g < i} :
         LET row == neighbors[f]
             listed == {row[k] : k \in 1..Len(row)}
         IN  /\ Len(row) = n_neighbors
             /\ f \notin listed
             /\ Cardinality(listed) = n_neighbors
             /\ \A k, l \in 1..Len(row) :
                  k < l => radius2(f, row[k]) <= radius2(f, row[l])
             /\ \A g \in Fibers \ (listed \cup {f}) :
                  \A k \in 1..Len(row) : radius2(f, row[k]) <= radius2(f, g)

-----------------------------------------------------------------------------
(* recordresults: update_global_targets and sync_observation_files *)

MaxSurvey == 2
MaxTile == 2
MaxTileNames == 2
MaxObserved == 1

SurveyIds == {100, 101, 102}
TileFiles == {"Targets_Tile_1", "Targets_Tile_2"}
TileFibers == {Unassigned, 0}

\* tile_file.replace("Targets_Tile", "Results_Tile")
results_file(tile_file) ==
    IF tile_file = "Targets_Tile_1" THEN "Results_Tile_1"
    ELSE IF tile_file = "Targets_Tile_2" THEN "Results_Tile_2"
    ELSE tile_file

ResultsFiles == {results_file(f) : f \in TileFiles}

Injective(a) == \A k, l \in DOMAIN a : k # l => a[k] # a[l]

\* is_assigned, with the test of the fiber left out
is_assigned_unchecked(t) == t \in Indices(tile_fiber)

\* if(tile_targets.fiber[i_target]!=-1)
is_assigned(t) == tile_fiber[t] # Unassigned

\* observed_again, with the counter set instead of increased
observed_first(n) == 1

\* all_targets.n_observed[loc] + 1
observed_again(n) == n + 1

\* np.where(all_targets.id == tile_targets.id[i_target])
survey_loc(id) == {k \in Indices(all_id) : all_id[k] = id}

\* np.where(tmp_id == all_targets.id[i_target])
results_loc(file, id) ==
    {r \in Indices(results[file].TARGETID) : results[file].TARGETID[r] = id}

\* the sequences over S of at most n entries, none twice
RECURSIVE DistinctSeqs(_, _)
DistinctSeqs(S, n) ==
    IF n = 0 THEN {<<>>}
    ELSE LET shorter == DistinctSeqs(S, n - 1)
         IN  shorter \cup {Append(q, e) : q \in shorter, e \in S}

TileNameLists ==
    {q \in DistinctSeqs(TileFiles, MaxTileNames) : Injective(q)}

IdColumns == {<<>>, <<100>>, <<101>>, <<100, 101>>}

column(q) == [r \in 0..(Len(q) - 1) |-> q[r + 1]]

NoPass ==
    /\ x_focal = <<>>
    /\ y_focal = <<>>
    /\ tile_x = <<>>
    /\ tile_y = <<>>
    /\ available_targets = <<>>
    /\ n_targets = <<>>
    /\ fiber_target = <<>>
    /\ neighbors = <<>>
    /\ tie = "asc"
    /\ run = 1

InitRecord ==
    /\ \E ns \in 0..MaxSurvey :
         /\ all_id \in {a \in [0..(ns - 1) -> SurveyIds] : Injective(a)}
         /\ \/ /\ pc = "update_global_targets"
               /\ n_observed \in [0..(ns - 1) -> 0..MaxObserved]
               /\ \E nt \in 0..MaxTile :
                    /\ tile_id \in {a \in [0..(nt - 1) -> SurveyIds] :
                                      Injective(a)}
                    /\ tile_fiber \in [0..(nt - 1) -> TileFibers]
               /\ tile_names = [k \in 0..(ns - 1) |-> <<>>]
               /\ results = <<>>
               /\ j = 0
            \/ /\ pc = "sync_observation_files"
               /\ n_observed = [k \in 0..(ns - 1) |-> 0]
               /\ tile_id = <<>>
               /\ tile_fiber = <<>>
               /\ tile_names \in [0..(ns - 1) -> TileNameLists]
               /\ results \in [ResultsFiles ->
                    {[TARGETID |-> column(q),
                      NOBS |-> [r \in 0..(Len(q) - 1) |-> 0]] :
                       q \in IdColumns}]
               /\ j = 1
    /\ i = 0
    /\ prev = <<n_observed, tile_id, tile_fiber>>
    /\ NoPass

recordFrame == <<x_focal, y_focal, tile_x, tile_y, tile_id, tile_fiber,
                 available_targets, n_targets, fiber_target, neighbors,
                 all_id, tile_names, tie, run, prev>>

\* one iteration of the loop of update_global_targets
UpdateGlobalTargets ==
    /\ pc = "update_global_targets"
    /\ i < Size(tile_id)
    /\ IF is_assigned(i)
         THEN LET loc == survey_loc(tile_id[i])
              IN  IF Cardinality(loc) # 0
                    THEN /\ n_observed' = [k \in Indices(n_observed) |->
                                             IF k \in loc
                                               THEN observed_again(n_observed[k])
                                               ELSE n_observed[k]]
                         /\ i' = i + 1
                         /\ pc' = pc
                    ELSE \* raise ValueError
                         /\ pc' = "update_global_targets raised"
                         /\ UNCHANGED <<n_observed, i>>
         ELSE /\ i' = i + 1
              /\ UNCHANGED <<n_observed, pc>>
    /\ UNCHANGED <<recordFrame, results, j>>

\* update_global_targets returns
UpdateGlobalReturn ==
    /\ pc = "update_global_targets"
    /\ i = Size(tile_id)
    /\ pc' = "update_global_targets returned"
    /\ UNCHANGED <<recordFrame, n_observed, results, i, j>>

\* one iteration of the inner loop of sync_observation_files: one results
\* file of survey target i
SyncObservationFile ==
    /\ pc = "sync_observation_files"
    /\ i < Size(all_id)
    /\ j <= Len(tile_names[i])
    /\ LET file == results_file(tile_names[i][j])
           loc == results_loc(file, all_id[i])
       IN  IF Cardinality(loc) # 0
             THEN /\ results' = [results EXCEPT ![file].NOBS =
                                   [r \in DOMAIN @ |->
                                      IF r \in loc THEN @[r] + 1 ELSE @[r]]]
                  /\ j' = j + 1
                  /\ pc' = pc
             ELSE \* raise ValueError
                  /\ pc' = "sync_observation_files raised"
                  /\ UNCHANGED <<results, j>>
    /\ UNCHANGED <<recordFrame, n_observed, i>>

\* the inner loop is over: the next survey target
SyncNextTarget ==
    /\ pc = "sync_observation_files"
    /\ i < Size(all_id)
    /\ j > Len(tile_names[i])
    /\ i' = i + 1
    /\ j' = 1
    /\ UNCHANGED <<recordFrame, n_observed, results, pc>>

\* sync_observation_files returns
SyncReturn ==
    /\ pc = "sync_observation_files"
    /\ i = Size(all_id)
    /\ pc' = "sync_observation_files returned"
    /\ UNCHANGED <<recordFrame, n_observed, results, i, j>>

NextRecord ==
    \/ UpdateGlobalTargets
    \/ UpdateGlobalReturn
    \/ SyncObservationFile
    \/ SyncNextTarget
    \/ SyncReturn

SpecRecord == InitRecord /\ [][NextRecord]_vars

\* an assigned tile target whose id the survey catalog does not hold
MissingInSurvey ==
    \E t \in Indices(tile_id) :
      /\ tile_fiber[t] # Unassigned
      /\ \A k \in Indices(all_id) : all_id[k] # tile_id[t]

\* a survey target whose id a results file of one of its tiles does not hold
MissingInResults ==
    \E k \in Indices(all_id) : \E n \in 1..Len(tile_names[k]) :
      LET ids == results[results_file(tile_names[k][n])].TARGETID
      IN  \A r \in DOMAIN ids : ids[r] # all_id[k]

\* C8: update_global_targets raises exactly when an assigned tile target's
\* id is absent from the survey catalog, sync_observation_files raises
\* exactly when a survey target's id is absent from the results list of one
\* of its tiles; unassigned tile targets with unknown ids do not raise.
C8_RaisesExactlyOnMissingId ==
    /\ pc = "update_global_targets raised" => MissingInSurvey
    /\ pc = "update_global_targets returned" => ~MissingInSurvey
    /\ pc = "sync_observation_files raised" => MissingInResults
    /\ pc = "sync_observation_files returned" => ~MissingInResults

C8_Witness ==
    /\ pc = "update_global_targets returned"
    /\ \E t \in Indices(tile_id) :
         /\ tile_fiber[t] = Unassigned
         /\ \A k \in Indices(all_id) : all_id[k] # tile_id[t]
    /\ \E t \in Indices(tile_id) : tile_fiber[t] # Unassigned

\* the survey target k has the id of a tile target that holds a fiber
ObservedOnTile(k) ==
    \E t \in Indices(tile_id) :
      tile_id[t] = all_id[k] /\ tile_fiber[t] # Unassigned

\* C11: a call of update_global_targets that returns has increased
\* n_observed by exactly 1 for every survey target whose id is that of a
\* tile target with a fiber, has left every other counter as it was, and
\* has not changed the tile's ids and fibers.
C11_CountsAssignedOnce ==
    pc = "update_global_targets returned" =>
      /\ \A k \in Indices(all_id) :
           n_observed[k] = prev[1][k] + (IF ObservedOnTile(k) THEN 1 ELSE 0)
      /\ tile_id = prev[2]
      /\ tile_fiber = prev[3]

C11_Witness ==
    /\ pc = "update_global_targets returned"
    /\ \E k, l \in Indices(all_id) :
         /\ ObservedOnTile(k)
         /\ prev[1][k] = 1
         /\ n_observed[k] = 2
         /\ ~ObservedOnTile(l)
         /\ prev[1][l] = 1
         /\ n_observed[l] = 1
    /\ \E t \in Indices(tile_id) : tile_fiber[t] = Unassigned

====
